---- MODULE Spec2Model ----
(***************************************************************************)
(* Model of the Profiles backend: the in-memory DatabaseManager            *)
(* (src/backend/database.py), the AuthManager session store                *)
(* (src/backend/auth.py) and the FastAPI route handlers                    *)
(* (src/backend/main.py).                                                  *)
(*                                                                         *)
(* One action is one complete call of a method or of a route handler.  The *)
(* handlers are `async def` bodies without any await, so each one runs to  *)
(* completion on the event loop.  The wall clock (datetime.now()) is the   *)
(* variable `now`, counted in days; all readings taken inside one call     *)
(* return the same value and the clock advances only between calls (Tick). *)
(***************************************************************************)
EXTENDS Integers, Sequences, FiniteSets, TLC

VARIABLES
    users,                  \* DatabaseManager.users: the dict's values, in insertion order
    profiles,               \* DatabaseManager.profiles: likewise
    appointment_requests,   \* DatabaseManager.appointment_requests: likewise
    sessions,               \* AuthManager.sessions        session_id -> session
    now,                    \* the reading of datetime.now()
    issued,                 \* history: what create_session has handed out so far
    calls,                  \* the create_profile calls in progress, one per thread
    last                    \* the call made by the last step, and what it returned

vars == <<users, profiles, appointment_requests, sessions, now, issued, calls, last>>

(***************************************************************************)
(* Bounds of the exploration.                                              *)
(***************************************************************************)
MaxClock == 8
MaxProfiles == 2
MaxRequests == 1
MaxIssued == 2
MaxStoredRequests == 2

(***************************************************************************)
(* Program constants.                                                      *)
(***************************************************************************)
SessionDays == 7

UserIds == {"u1", "u2"}
ProfileIds == {"p" \o ToString(i) : i \in 1..MaxProfiles}
RequestIds == {"r" \o ToString(i) : i \in 1..MaxRequests}
\* the LoginRequest bodies sent: the first address under two display names
LoginRequests ==
    { [email |-> "a@x.com", name |-> "Alice"], [email |-> "a@x.com", name |-> "Alicia"],
      [email |-> "b@x.com", name |-> "Bob"], [email |-> "c@x.com", name |-> "Carol"] }
\* the two the route-level behaviours log in with
RouteLogins ==
    { [email |-> "a@x.com", name |-> "Alice"], [email |-> "b@x.com", name |-> "Bob"] }

\* hash(email): str hashes are fixed for the life of the process and need not be
\* injective; here two of the addresses share a hash value
hash(email) == IF email = "a@x.com" THEN 11 ELSE 22

\* the instants at which calls are made: the first two days of every
\* SessionDays-day period, so that calls 1, SessionDays - 1, SessionDays and
\* SessionDays + 1 days apart all occur
ClockReadings == {t \in 0..MaxClock : t % SessionDays <= 1}
\* the coarser instants used where only "before" and "after expiry" matter
WeekReadings == {t \in 0..MaxClock : t % SessionDays = 0}

None == [k |-> "None"]
Some(kind, v) == [k |-> kind, v |-> v]
Raised(exc) == [k |-> "raise", v |-> exc]

(***************************************************************************)
(* The token format: base64(json.dumps({"session_id":..., "user_id":...})) *)
(* A JSON text is the sequence of its lexemes; a wire token is such a text *)
(* together with whether its base64 padding and its UTF-8 are well formed. *)
(***************************************************************************)
P(c) == [k |-> "punct", v |-> c]
S(s) == [k |-> "str", v |-> s]
NullLex == [k |-> "null", v |-> "null"]

JStr(s) == [t |-> "str", v |-> s]
JNull == [t |-> "null", v |-> ""]
JList == [t |-> "list", v |-> ""]

\* json.dumps of a dict with the keys session_id and user_id, in that order
JsonDumps(token_data) ==
    << P("{"), S("session_id"), P(":"), S(token_data.session_id), P(","),
       S("user_id"), P(":"), S(token_data.user_id), P("}") >>

\* the JSON scalar that starts at lexeme i of text, and how many lexemes it takes
ScalarAt(text, i) ==
    IF i > Len(text) THEN [ok |-> FALSE, n |-> 0, val |-> JNull]
    ELSE IF text[i].k = "str" THEN [ok |-> TRUE, n |-> 1, val |-> JStr(text[i].v)]
    ELSE IF text[i].k = "null" THEN [ok |-> TRUE, n |-> 1, val |-> JNull]
    ELSE IF text[i] = P("[") /\ i + 1 <= Len(text) /\ text[i + 1] = P("]")
         THEN [ok |-> TRUE, n |-> 2, val |-> JList]
    ELSE [ok |-> FALSE, n |-> 0, val |-> JNull]

\* the members of a JSON object from lexeme i on: key ":" value ("," ...)* "}"
\* a key given twice keeps its last value
RECURSIVE Members(_, _, _)
Members(text, i, acc) ==
    IF i + 2 > Len(text) \/ text[i].k # "str" \/ text[i + 1] # P(":")
    THEN [ok |-> FALSE, fields |-> acc]
    ELSE LET sc == ScalarAt(text, i + 2)
             j == i + 2 + sc.n
             got == [key \in DOMAIN acc \cup {text[i].v} |->
                        IF key = text[i].v THEN sc.val ELSE acc[key]]
         IN IF ~sc.ok \/ j > Len(text) THEN [ok |-> FALSE, fields |-> acc]
            ELSE IF text[j] = P("}") THEN [ok |-> j = Len(text), fields |-> got]
            ELSE IF text[j] = P(",") THEN Members(text, j + 1, got)
            ELSE [ok |-> FALSE, fields |-> acc]

NoFields == [key \in {} |-> JNull]

\* json.loads: ok = FALSE is JSONDecodeError
JsonLoads(text) ==
    LET sc == ScalarAt(text, 1)
    IN IF text = << >> THEN [ok |-> FALSE, t |-> "", fields |-> NoFields, val |-> JNull]
       ELSE IF sc.ok
            THEN [ok |-> sc.n = Len(text), t |-> sc.val.t, fields |-> NoFields, val |-> sc.val]
       ELSE IF text = << P("{"), P("}") >>
            THEN [ok |-> TRUE, t |-> "dict", fields |-> NoFields, val |-> JNull]
       ELSE IF text[1] = P("{")
            THEN LET m == Members(text, 2, NoFields)
                 IN [ok |-> m.ok, t |-> "dict", fields |-> m.fields, val |-> JNull]
       ELSE [ok |-> FALSE, t |-> "", fields |-> NoFields, val |-> JNull]

\* base64.b64encode(text.encode()).decode()
B64Encode(text) == [b64 |-> TRUE, utf8 |-> TRUE, text |-> text]

\* base64.b64decode(token).decode(): binascii.Error, UnicodeDecodeError or the text
B64Decode(token) ==
    IF ~token.b64 THEN Raised("binascii.Error")
    ELSE IF ~token.utf8 THEN Raised("UnicodeDecodeError")
    ELSE Some("text", token.text)

\* mutant: the session id leaves the user id out
SessionId_NoUser(user_id, t) == "session_" \o ToString(t)

\* f"session_{user_id}_{datetime.now().timestamp()}"
SessionId(user_id, t) == "session_" \o user_id \o "_" \o ToString(t)

\* token_data.get("session_id") and the test `session_id in self.sessions`:
\* AttributeError when the JSON value is no dict, TypeError when the id is a
\* list (unhashable), else the id (None when the key is missing or null)
SessionIdOf(token_data) ==
    IF ~token_data.ok THEN Raised("JSONDecodeError")
    ELSE IF token_data.t # "dict" THEN Raised("AttributeError")
    ELSE IF "session_id" \notin DOMAIN token_data.fields THEN None
    ELSE IF token_data.fields["session_id"].t = "list" THEN Raised("TypeError")
    ELSE IF token_data.fields["session_id"].t = "null" THEN None
    ELSE Some("str", token_data.fields["session_id"].v)

LoadsDecoded(raw) == IF raw.k = "raise" THEN raw ELSE SessionIdOf(JsonLoads(raw.v))

\* the try-block prefix shared by verify_token and logout: the session_id the
\* token names, or the exception raised on the way
DecodeSessionId(token) == LoadsDecoded(B64Decode(token))

(***************************************************************************)
(* AuthManager (src/backend/auth.py).  Each operator is one method: it     *)
(* takes the session store (and the clock reading) and gives the returned  *)
(* value with the store the call leaves behind.                            *)
(***************************************************************************)
\* mutant: the stored record keeps the session id's timestamp but not the user
NewSession_NoUser(user_id, t) ==
    [user_id |-> "", created_at |-> t, expires_at |-> t + SessionDays]

NewSession(user_id, t) ==
    [user_id |-> user_id, created_at |-> t, expires_at |-> t + SessionDays]

NewToken(session_id, user_id) ==
    B64Encode(JsonDumps([session_id |-> session_id, user_id |-> user_id]))

\* self.sessions[session_id] = session_data
StoreSession(sess, session_id, session_data) ==
    [sid \in DOMAIN sess \cup {session_id} |->
        IF sid = session_id THEN session_data ELSE sess[sid]]

\* mutant: the del statement is missing
DelSession_Keep(sess, session_id) == sess

\* mutant: the del statement empties the whole store
DelSession_All(sess, session_id) == [sid \in {} |-> sess[sid]]

\* del self.sessions[session_id]
DelSession(sess, session_id) == [sid \in DOMAIN sess \ {session_id} |-> sess[sid]]

create_session(sess, user_id, t) ==
    LET session_id == SessionId(user_id, t)
    IN [ret |-> Some("token", NewToken(session_id, user_id)),
        sessions |-> StoreSession(sess, session_id, NewSession(user_id, t))]

\* mutant: a session is still good at the instant it expires
Unexpired_AtBoundary(session, t) == session.expires_at >= t

\* session["expires_at"] > datetime.now()
\* mutant: a stored session never expires
Unexpired_Always(session, t) == TRUE

Unexpired(session, t) == session.expires_at > t

\* mutant: `except ValueError: pass`
ExceptException_ValueError(exc) ==
    exc \in {"binascii.Error", "UnicodeDecodeError", "JSONDecodeError"}

\* `except Exception: pass`: every exception the try block can raise is caught
ExceptException(exc) == TRUE

\* what leaves a try block that ended with the exception d: nothing when the
\* handler caught it (the method then falls through to its final return)
AfterTry(d, fallthrough) == IF ExceptException(d.v) THEN fallthrough ELSE d

\* verify_token once the token is decoded to d
VerifySession(sess, d, t) ==
    IF d.k = "raise" THEN [ret |-> AfterTry(d, None), sessions |-> sess]
    ELSE IF d.k = "str" /\ d.v \in DOMAIN sess
         THEN IF Unexpired(sess[d.v], t)
              THEN [ret |-> Some("session", sess[d.v]), sessions |-> sess]
              ELSE [ret |-> None, sessions |-> DelSession(sess, d.v)]
    ELSE [ret |-> None, sessions |-> sess]

verify_token(sess, token, t) == VerifySession(sess, DecodeSessionId(token), t)

\* logout once the token is decoded to d
LogoutSession(sess, d) ==
    IF d.k = "raise" THEN [ret |-> AfterTry(d, Some("bool", FALSE)), sessions |-> sess]
    ELSE IF d.k = "str" /\ d.v \in DOMAIN sess
         THEN [ret |-> Some("bool", TRUE), sessions |-> DelSession(sess, d.v)]
    ELSE [ret |-> Some("bool", FALSE), sessions |-> sess]

logout(sess, token) == LogoutSession(sess, DecodeSessionId(token))

\* f"workos_user_{hash(email)}"
simulate_workos_login(email, name) == "workos_user_" \o ToString(hash(email))

(***************************************************************************)
(* DatabaseManager (src/backend/database.py).  A dict keyed by id is the   *)
(* sequence of its values in insertion order (the order Python iterates    *)
(* them in); every record carries its own key in the field id.             *)
(***************************************************************************)
Ids(table) == {table[i].id : i \in DOMAIN table}

\* the values of a dict that satisfy Test, in iteration order
Filter(table, Test(_)) == SelectSeq(table, Test)

\* dict.get(key): the value stored under key, or None
Get(table, key) ==
    IF key \in Ids(table)
    THEN Some("record", table[CHOOSE i \in DOMAIN table : table[i].id = key])
    ELSE None

create_user(us, workos_user_id, email, name, t, user_id) ==
    LET user == [id |-> user_id, workos_user_id |-> workos_user_id, email |-> email,
                 name |-> name, created_at |-> t, updated_at |-> t]
    IN [ret |-> Some("record", user), users |-> Append(us, user)]

\* mutant: the scan compares the user's own id with the WorkOS id
get_user_by_workos_id_ById(us, workos_user_id) ==
    LET HasWorkosId(user) == user.id = workos_user_id
        found == Filter(us, HasWorkosId)
    IN IF found = << >> THEN None ELSE Some("record", found[1])

get_user_by_workos_id(us, workos_user_id) ==
    LET HasWorkosId(user) == user.workos_user_id = workos_user_id
        found == Filter(us, HasWorkosId)
    IN IF found = << >> THEN None ELSE Some("record", found[1])

\* mutant: the lookup ignores the key and gives the first stored user
get_user_by_id_First(us, user_id) ==
    IF us = << >> THEN None ELSE Some("record", us[1])

get_user_by_id(us, user_id) == Get(us, user_id)

\* mutant: the lookup ignores the key and gives any stored profile
get_profile_by_id_Any(profs, profile_id) ==
    IF profs = << >> THEN None ELSE Some("record", profs[1])

get_profile_by_id(profs, profile_id) == Get(profs, profile_id)

\* mutant: the scan compares the profile's own id with the user id
get_profiles_by_user_id_ById(profs, user_id) ==
    LET OwnedBy(p) == p.id = user_id
    IN Filter(profs, OwnedBy)

get_profiles_by_user_id(profs, user_id) ==
    LET OwnedBy(p) == p.user_id = user_id
    IN Filter(profs, OwnedBy)

ProfileFields == {"name", "email", "skills", "bio", "available_for"}

\* the five profile_data[...] subscripts: KeyError when one of them is missing
HasProfileFields(profile_data) == ProfileFields \subseteq DOMAIN profile_data

\* mutant: the update leaves the bio out
update_profile_NoBio(profs, profile_id, profile_data, t) ==
    IF profile_id \notin Ids(profs) THEN [ret |-> Raised("ValueError"), profiles |-> profs]
    ELSE IF ~HasProfileFields(profile_data) THEN [ret |-> Raised("KeyError"), profiles |-> profs]
    ELSE LET i == CHOOSE i \in DOMAIN profs : profs[i].id = profile_id
             profile == [profs[i] EXCEPT !.name = profile_data.name,
                                         !.email = profile_data.email,
                                         !.skills = profile_data.skills,
                                         !.available_for = profile_data.available_for,
                                         !.updated_at = t]
         IN [ret |-> Some("record", profile), profiles |-> [profs EXCEPT ![i] = profile]]

\* mutant: the update also stamps created_at
update_profile_Restamp(profs, profile_id, profile_data, t) ==
    IF profile_id \notin Ids(profs) THEN [ret |-> Raised("ValueError"), profiles |-> profs]
    ELSE IF ~HasProfileFields(profile_data) THEN [ret |-> Raised("KeyError"), profiles |-> profs]
    ELSE LET i == CHOOSE i \in DOMAIN profs : profs[i].id = profile_id
             profile == [profs[i] EXCEPT !.name = profile_data.name,
                                         !.email = profile_data.email,
                                         !.skills = profile_data.skills,
                                         !.bio = profile_data.bio,
                                         !.available_for = profile_data.available_for,
                                         !.created_at = t,
                                         !.updated_at = t]
         IN [ret |-> Some("record", profile), profiles |-> [profs EXCEPT ![i] = profile]]

update_profile(profs, profile_id, profile_data, t) ==
    IF profile_id \notin Ids(profs) THEN [ret |-> Raised("ValueError"), profiles |-> profs]
    ELSE IF ~HasProfileFields(profile_data) THEN [ret |-> Raised("KeyError"), profiles |-> profs]
    ELSE LET i == CHOOSE i \in DOMAIN profs : profs[i].id = profile_id
             profile == [profs[i] EXCEPT !.name = profile_data.name,
                                         !.email = profile_data.email,
                                         !.skills = profile_data.skills,
                                         !.bio = profile_data.bio,
                                         !.available_for = profile_data.available_for,
                                         !.updated_at = t]
         IN [ret |-> Some("record", profile), profiles |-> [profs EXCEPT ![i] = profile]]

\* create_profile from line 48 on: existing_profiles is what the scan of line 47 gave
create_profile_from(profs, existing_profiles, user_id, profile_data, t, profile_id) ==
    IF existing_profiles # << >>
    THEN update_profile(profs, existing_profiles[1].id, profile_data, t)
    ELSE IF ~HasProfileFields(profile_data)
         THEN [ret |-> Raised("KeyError"), profiles |-> profs]
    ELSE LET profile == [id |-> profile_id, user_id |-> user_id,
                         name |-> profile_data.name, email |-> profile_data.email,
                         skills |-> profile_data.skills, bio |-> profile_data.bio,
                         available_for |-> profile_data.available_for,
                         created_at |-> t, updated_at |-> t]
         IN [ret |-> Some("record", profile), profiles |-> Append(profs, profile)]

create_profile(profs, user_id, profile_data, t, profile_id) ==
    create_profile_from(profs, get_profiles_by_user_id(profs, user_id),
                        user_id, profile_data, t, profile_id)

create_appointment_request(reqs, request_data, sender_user_id, t, request_id) ==
    LET request == [id |-> request_id, profile_id |-> request_data.profile_id,
                    requester_name |-> request_data.requester_name,
                    requester_email |-> request_data.requester_email,
                    message |-> request_data.message,
                    preferred_time |-> request_data.preferred_time,
                    request_type |-> request_data.request_type,
                    status |-> "pending", created_at |-> t,
                    sender_user_id |-> sender_user_id]
    IN [ret |-> Some("record", request), appointment_requests |-> Append(reqs, request)]

\* mutant: every stored request, whoever owns its profile
get_requests_by_user_id_All(profs, reqs, user_id) == reqs

get_requests_by_user_id(profs, reqs, user_id) ==
    LET user_profiles == get_profiles_by_user_id(profs, user_id)
        profile_ids == {user_profiles[i].id : i \in DOMAIN user_profiles}
        ForUser(r) == r.profile_id \in profile_ids
    IN Filter(reqs, ForUser)

\* mutant: only a pending request takes the new status
update_request_status_PendingOnly(reqs, request_id, status) ==
    IF request_id \in Ids(reqs)
    THEN LET i == CHOOSE i \in DOMAIN reqs : reqs[i].id = request_id
         IN [ret |-> Some("bool", TRUE),
             appointment_requests |->
                 IF reqs[i].status = "pending" THEN [reqs EXCEPT ![i].status = status]
                 ELSE reqs]
    ELSE [ret |-> Some("bool", FALSE), appointment_requests |-> reqs]

update_request_status(reqs, request_id, status) ==
    IF request_id \in Ids(reqs)
    THEN LET i == CHOOSE i \in DOMAIN reqs : reqs[i].id = request_id
         IN [ret |-> Some("bool", TRUE),
             appointment_requests |-> [reqs EXCEPT ![i].status = status]]
    ELSE [ret |-> Some("bool", FALSE), appointment_requests |-> reqs]

(***************************************************************************)
(* The dependencies of the routes (src/backend/auth.py).                   *)
(***************************************************************************)
NoCredentials == [b64 |-> FALSE, utf8 |-> FALSE, text |-> << P("no Authorization header") >>]

\* Python truth of what verify_token / get_user_by_id returned
Truthy(r) == r.k # "None"

\* `if session: return db.get_user_by_id(session["user_id"])`, else None
UserOfSession(v, us) ==
    IF Truthy(v.ret) THEN [ret |-> get_user_by_id(us, v.ret.v.user_id), sessions |-> v.sessions]
    ELSE [ret |-> None, sessions |-> v.sessions]

get_current_user(sess, us, credentials, t) ==
    IF credentials = NoCredentials THEN [ret |-> None, sessions |-> sess]
    ELSE UserOfSession(verify_token(sess, credentials, t), us)

Http(status, body) == [k |-> "http", status |-> status, v |-> body]

\* `if not current_user: raise HTTPException(status_code=401, ...)`
OrUnauthorized(cu) ==
    IF ~Truthy(cu.ret)
    THEN [ret |-> Http(401, "Authentication required"), sessions |-> cu.sessions]
    ELSE cu

\* require_auth: the current user, or HTTPException(401)
require_auth(sess, us, credentials, t) ==
    OrUnauthorized(get_current_user(sess, us, credentials, t))

(***************************************************************************)
(* The inputs the calls are made with.                                     *)
(***************************************************************************)
DataA == [name |-> "Alice", email |-> "a@x.com", skills |-> << "Go" >>,
          bio |-> "dev", available_for |-> << "meeting" >>]
DataB == [name |-> "Bob", email |-> "b@x.com", skills |-> << "Python", "Go" >>,
          bio |-> "ops", available_for |-> << "quote" >>]
\* a dict without the key bio, as a direct caller of the store can pass
DataNoBio == [name |-> "Eve", email |-> "e@x.com", skills |-> << >>,
              available_for |-> << >>]
ProfileCreates == {DataA, DataB}
\* the JSON bodies sent to POST /profiles; the second carries a user_id key,
\* which ProfileCreate does not declare
BodyB == [name |-> "Bob", email |-> "b@x.com", skills |-> << "Python", "Go" >>,
          bio |-> "ops", available_for |-> << "quote" >>, user_id |-> "u1"]
ProfileBodies == {DataA, BodyB}
\* ProfileCreate(**body).model_dump(): the declared fields, extra keys ignored
model_dump(body) == [f \in ProfileFields |-> body[f]]
ProfileDicts == ProfileCreates \cup {DataNoBio}

Text(lexemes) == [b64 |-> TRUE, utf8 |-> TRUE, text |-> lexemes]
BadPadding == [b64 |-> FALSE, utf8 |-> TRUE, text |-> << >>]
MalformedTokens ==
    { BadPadding,                                                     \* bad base64 padding
      [b64 |-> TRUE, utf8 |-> FALSE, text |-> << >>],                 \* bytes that are not UTF-8
      Text(<< P("{"), S("session_id"), P(":") >>),                     \* truncated JSON
      Text(<< P("["), P("]") >>),                                      \* a JSON array
      Text(<< P("{"), S("session_id"), P(":"), P("["), P("]"), P("}") >>), \* unhashable id
      Text(<< P("{"), S("user_id"), P(":"), S("u1"), P("}") >>),       \* no session_id
      NewToken("session_u1_never", "u1") }                             \* an id never stored

\* the tokens create_session has handed out, and those tokens with the
\* user_id rewritten by the client
IssuedTokens == {i.token : i \in issued}
TamperedTokens == {NewToken(i.session_id, u) : i \in issued, u \in UserIds} \ IssuedTokens
Tokens == IssuedTokens \cup TamperedTokens \cup MalformedTokens
\* the Authorization headers the routes are called with
Credentials == IssuedTokens \cup {NoCredentials, BadPadding}

\* The history of a token handed out by create_session(user_id) at time t:
\* logouts tells whether logout has since been called with this very token
\* ("same"), only with other tokens naming its session ("other"), or not ("none")
Issue(user_id, t) ==
    [token |-> NewToken(SessionId(user_id, t), user_id), user_id |-> user_id,
     session_id |-> SessionId(user_id, t), at |-> t, logouts |-> "none"]

Issued(iss, user_id, t) ==
    {i \in iss : i.token # Issue(user_id, t).token} \cup {Issue(user_id, t)}

CanIssue(user_id, t) == Cardinality(Issued(issued, user_id, t)) <= MaxIssued

NamesSession(token, session_id) ==
    \E user_id \in UserIds : token = NewToken(session_id, user_id)

LoggedOut(iss, token) ==
    { IF i.token = token THEN [i EXCEPT !.logouts = "same"]
      ELSE IF NamesSession(token, i.session_id) /\ i.logouts = "none"
           THEN [i EXCEPT !.logouts = "other"]
      ELSE i : i \in iss }

dbvars == <<users, profiles, appointment_requests>>

\* the threads that call the store's methods, and a thread that is in no call
Threads == {"t1", "t2"}
Idle == [pc |-> "idle"]

Init ==
    /\ users = << >>
    /\ profiles = << >>
    /\ appointment_requests = << >>
    /\ sessions = [sid \in {} |-> NewSession("", 0)]
    /\ now = 0
    /\ issued = {}
    /\ calls = [thread \in Threads |-> Idle]
    /\ last = [op |-> "init", arg |-> None, ret |-> None]

(***************************************************************************)
(* Calls of the AuthManager's methods.                                     *)
(***************************************************************************)
Tick(t) ==
    /\ t > now
    /\ now' = t
    /\ last' = [op |-> "tick", arg |-> None, ret |-> None]
    /\ UNCHANGED <<dbvars, sessions, issued, calls>>

CreateSession(user_id) ==
    /\ CanIssue(user_id, now)
    /\ LET r == create_session(sessions, user_id, now)
       IN /\ sessions' = r.sessions
          /\ last' = [op |-> "create_session", arg |-> [user_id |-> user_id], ret |-> r.ret]
    /\ issued' = Issued(issued, user_id, now)
    /\ UNCHANGED <<dbvars, now, calls>>

VerifyToken(token) ==
    /\ LET r == verify_token(sessions, token, now)
       IN /\ sessions' = r.sessions
          /\ last' = [op |-> "verify_token", arg |-> [token |-> token], ret |-> r.ret]
    /\ UNCHANGED <<dbvars, now, issued, calls>>

Logout(token) ==
    /\ LET r == logout(sessions, token)
       IN /\ sessions' = r.sessions
          /\ last' = [op |-> "logout", arg |-> [token |-> token], ret |-> r.ret]
    /\ issued' = LoggedOut(issued, token)
    /\ UNCHANGED <<dbvars, now, calls>>

(***************************************************************************)
(* Direct calls of the DatabaseManager's methods.                          *)
(***************************************************************************)
\* str(uuid.uuid4()): an id the table does not hold yet.  uuid4 values are
\* distinct and otherwise arbitrary, so the k-th record of a table gets the
\* k-th id of the pool (none when the pool is used up)
FreshIds(prefix, pool, table) == {prefix \o ToString(Len(table) + 1)} \cap (pool \ Ids(table))

DbCreateProfile(user_id, profile_data) ==
    /\ LET creates == get_profiles_by_user_id(profiles, user_id) = << >>
                      /\ HasProfileFields(profile_data)
       IN \E profile_id \in IF creates THEN FreshIds("p", ProfileIds, profiles) ELSE {"unused"} :
            LET r == create_profile(profiles, user_id, profile_data, now, profile_id)
            IN /\ profiles' = r.profiles
               /\ last' = [op |-> "create_profile",
                           arg |-> [user_id |-> user_id, profile_data |-> profile_data],
                           ret |-> r.ret]
    /\ UNCHANGED <<users, appointment_requests, sessions, now, issued, calls>>

DbUpdateProfile(profile_id, profile_data) ==
    /\ LET r == update_profile(profiles, profile_id, profile_data, now)
       IN /\ profiles' = r.profiles
          /\ last' = [op |-> "update_profile",
                      arg |-> [profile_id |-> profile_id, profile_data |-> profile_data],
                      ret |-> r.ret]
    /\ UNCHANGED <<users, appointment_requests, sessions, now, issued, calls>>

(***************************************************************************)
(* create_profile called from several threads.  The method holds no lock,  *)
(* so another thread can run between its scan for an existing profile      *)
(* (line 47) and the rest of its body; the dict operations themselves are  *)
(* atomic under the interpreter lock.                                      *)
(***************************************************************************)
\* line 47: existing_profiles = self.get_profiles_by_user_id(user_id)
CreateProfileScan(thread, user_id, profile_data) ==
    /\ calls[thread] = Idle
    /\ calls' = [calls EXCEPT ![thread] =
                    [pc |-> "scanned", user_id |-> user_id, profile_data |-> profile_data,
                     existing_profiles |-> get_profiles_by_user_id(profiles, user_id)]]
    /\ last' = [op |-> "create_profile: scan",
                arg |-> [thread |-> thread, user_id |-> user_id, profile_data |-> profile_data],
                ret |-> None]
    /\ UNCHANGED <<dbvars, sessions, now, issued>>

\* lines 48-67: update the profile found, or insert a new one, and return
CreateProfileStore(thread) ==
    /\ calls[thread] # Idle
    /\ LET c == calls[thread]
       IN \E profile_id \in IF c.existing_profiles = << >>
                             THEN FreshIds("p", ProfileIds, profiles) ELSE {"unused"} :
            LET r == create_profile_from(profiles, c.existing_profiles, c.user_id,
                                         c.profile_data, now, profile_id)
            IN /\ profiles' = r.profiles
               /\ last' = [op |-> "create_profile: return",
                           arg |-> [thread |-> thread, user_id |-> c.user_id,
                                    profile_data |-> c.profile_data],
                           ret |-> r.ret]
    /\ calls' = [calls EXCEPT ![thread] = Idle]
    /\ UNCHANGED <<users, appointment_requests, sessions, now, issued>>

\* the ids of the requests stored by direct calls of the store
StoredRequestIds == {"r" \o ToString(i) : i \in 1..MaxStoredRequests}

DbCreateAppointmentRequest(request_data, sender_user_id) ==
    /\ \E request_id \in FreshIds("r", StoredRequestIds, appointment_requests) :
          LET r == create_appointment_request(appointment_requests, request_data,
                                              sender_user_id, now, request_id)
          IN /\ appointment_requests' = r.appointment_requests
             /\ last' = [op |-> "create_appointment_request",
                         arg |-> [request_data |-> request_data,
                                  sender_user_id |-> sender_user_id],
                         ret |-> r.ret]
    /\ UNCHANGED <<users, profiles, sessions, now, issued, calls>>

DbUpdateRequestStatus(request_id, status) ==
    /\ LET r == update_request_status(appointment_requests, request_id, status)
       IN /\ appointment_requests' = r.appointment_requests
          /\ last' = [op |-> "update_request_status",
                      arg |-> [request_id |-> request_id, status |-> status],
                      ret |-> r.ret]
    /\ UNCHANGED <<users, profiles, sessions, now, issued, calls>>

(***************************************************************************)
(* The route handlers (src/backend/main.py).                               *)
(***************************************************************************)
\* POST /auth/login
Login(login_request) ==
    LET email == login_request.email
        name == login_request.name
        workos_user_id == simulate_workos_login(email, name)
        found == get_user_by_workos_id(users, workos_user_id)
    IN \E user_id \in IF Truthy(found) THEN {"unused"} ELSE FreshIds("u", UserIds, users) :
         LET made == create_user(users, workos_user_id, email, name, now, user_id)
             user == IF Truthy(found) THEN found.v ELSE made.ret.v
             s == create_session(sessions, user.id, now)
         IN /\ CanIssue(user.id, now)
            /\ users' = IF Truthy(found) THEN users ELSE made.users
            /\ sessions' = s.sessions
            /\ issued' = Issued(issued, user.id, now)
            /\ last' = [op |-> "POST /auth/login", arg |-> login_request,
                        ret |-> Http(200, [token |-> s.ret.v, user |-> user])]
            /\ UNCHANGED <<profiles, appointment_requests, now, calls>>

\* POST /auth/logout, a being what its dependency require_auth gave
LogoutAs(a, credentials) ==
    /\ sessions' = a.sessions
    /\ last' = [op |-> "POST /auth/logout", arg |-> [credentials |-> credentials],
                ret |-> IF a.ret.k = "http" THEN a.ret
                        ELSE Http(200, "Logged out successfully")]
    /\ UNCHANGED <<dbvars, now, issued, calls>>

RouteLogout(credentials) ==
    LogoutAs(require_auth(sessions, users, credentials, now), credentials)

\* POST /profiles, a being what its dependency require_auth gave
CreateProfileAs(a, credentials, profile) ==
    IF a.ret.k = "http"
    THEN /\ sessions' = a.sessions
         /\ last' = [op |-> "POST /profiles",
                     arg |-> [credentials |-> credentials, profile |-> profile],
                     ret |-> a.ret]
         /\ UNCHANGED <<dbvars, now, issued, calls>>
    ELSE \E profile_id \in IF get_profiles_by_user_id(profiles, a.ret.v.id) = << >>
                           THEN FreshIds("p", ProfileIds, profiles) ELSE {"unused"} :
            LET r == create_profile(profiles, a.ret.v.id, model_dump(profile), now, profile_id)
            IN /\ sessions' = a.sessions
               /\ profiles' = r.profiles
               /\ last' = [op |-> "POST /profiles",
                           arg |-> [credentials |-> credentials, profile |-> profile],
                           ret |-> Http(200, r.ret.v)]
               /\ UNCHANGED <<users, appointment_requests, now, issued, calls>>

RouteCreateProfile(credentials, profile) ==
    CreateProfileAs(require_auth(sessions, users, credentials, now), credentials, profile)

RequestFor(profile_id) ==
    [profile_id |-> profile_id, requester_name |-> "Carol",
     requester_email |-> "carol@x.com", message |-> "hello",
     preferred_time |-> "None", request_type |-> "meeting"]

\* POST /appointments
RouteRequestAppointment(request) ==
    /\ LET profile == get_profile_by_id(profiles, request.profile_id)
       IN \E request_id \in IF Truthy(profile) THEN FreshIds("r", RequestIds, appointment_requests)
                                               ELSE {"unused"} :
            LET r == create_appointment_request(appointment_requests, request, "None",
                                                now, request_id)
            IN /\ appointment_requests' =
                     IF Truthy(profile) THEN r.appointment_requests ELSE appointment_requests
               /\ last' = [op |-> "POST /appointments", arg |-> [request |-> request],
                           ret |-> IF Truthy(profile)
                                   THEN Http(200, [request_id |-> r.ret.v.id])
                                   ELSE Http(404, "Profile not found")]
    /\ UNCHANGED <<users, profiles, sessions, now, issued, calls>>

\* UpdateRequestStatus.status is any str; the route documents these two
Statuses == {"accepted", "rejected", "pending", "cancelled"}
RouteStatuses == {"accepted", "rejected"}

\* PUT /appointments/{request_id}/status, a being what require_auth gave
UpdateStatusAs(a, credentials, request_id, status) ==
    LET arg == [credentials |-> credentials, request_id |-> request_id, status |-> status]
    IN IF a.ret.k = "http"
       THEN /\ sessions' = a.sessions
            /\ last' = [op |-> "PUT /appointments/status", arg |-> arg, ret |-> a.ret]
            /\ UNCHANGED <<dbvars, now, issued, calls>>
       ELSE LET user_requests ==
                    get_requests_by_user_id(profiles, appointment_requests, a.ret.v.id)
                request_ids == {user_requests[i].id : i \in DOMAIN user_requests}
                r == update_request_status(appointment_requests, request_id, status)
            IN /\ sessions' = a.sessions
               /\ appointment_requests' =
                     IF request_id \in request_ids THEN r.appointment_requests
                     ELSE appointment_requests
               /\ last' = [op |-> "PUT /appointments/status", arg |-> arg,
                           ret |-> IF request_id \notin request_ids
                                   THEN Http(404, "Request not found or not authorized")
                                   ELSE IF ~r.ret.v THEN Http(404, "Request not found")
                                   ELSE Http(200, status)]
               /\ UNCHANGED <<users, profiles, now, issued, calls>>

RouteUpdateStatus(credentials, request_id, status) ==
    UpdateStatusAs(require_auth(sessions, users, credentials, now),
                   credentials, request_id, status)

(***************************************************************************)
(* The specifications.  Each is the program driven through a part of its   *)
(* interface: the session store's methods (SpecAuth), login and logout     *)
(* (SpecLogin), the data store's methods (SpecDb, SpecRequests), the same  *)
(* called from two threads (SpecThreads) and the routes (SpecRoutes; the   *)
(* writes to the data store in SpecOwners, the guard in SpecGuard).  No    *)
(* call outside SpecAuth changes the session store other than through      *)
(* create_session, verify_token and logout, and no route changes the data  *)
(* store other than through the methods of the DatabaseManager.            *)
(***************************************************************************)
NextAuth ==
    \/ \E t \in ClockReadings : Tick(t)
    \/ \E user_id \in UserIds : CreateSession(user_id)
    \/ \E token \in Tokens : VerifyToken(token)
    \/ \E token \in Tokens : Logout(token)

SpecAuth == Init /\ [][NextAuth]_vars


NextDb ==
    \/ \E t \in WeekReadings : Tick(t)
    \/ \E login_request \in RouteLogins : Login(login_request)
    \/ \E user_id \in UserIds, profile_data \in ProfileDicts :
          DbCreateProfile(user_id, profile_data)
    \/ \E profile_id \in ProfileIds, profile_data \in ProfileDicts :
          DbUpdateProfile(profile_id, profile_data)
    \/ \E profile_id \in ProfileIds : RouteRequestAppointment(RequestFor(profile_id))

SpecDb == Init /\ [][NextDb]_vars

NextLogin ==
    \/ \E t \in WeekReadings : Tick(t)
    \/ \E login_request \in LoginRequests : Login(login_request)
    \/ \E token \in Tokens : Logout(token)
    \/ \E credentials \in Credentials : RouteLogout(credentials)

SpecLogin == Init /\ [][NextLogin]_vars

NextRoutes ==
    \/ \E t \in WeekReadings : Tick(t)
    \/ \E login_request \in RouteLogins : Login(login_request)
    \/ \E token \in IssuedTokens : Logout(token)
    \/ \E credentials \in Credentials : RouteLogout(credentials)
    \/ \E credentials \in Credentials, profile \in ProfileBodies :
          RouteCreateProfile(credentials, profile)
    \/ \E profile_id \in ProfileIds \cup {"p_missing"} :
          RouteRequestAppointment(RequestFor(profile_id))
    \/ \E credentials \in Credentials, request_id \in RequestIds, status \in RouteStatuses :
          RouteUpdateStatus(credentials, request_id, status)

SpecRoutes == Init /\ [][NextRoutes]_vars

\* the routes that write to the data store, called at one instant
NextOwners ==
    \/ \E login_request \in RouteLogins : Login(login_request)
    \/ \E credentials \in Credentials, profile \in ProfileBodies :
          RouteCreateProfile(credentials, profile)
    \/ \E profile_id \in ProfileIds \cup {"p_missing"} :
          RouteRequestAppointment(RequestFor(profile_id))
    \/ \E credentials \in Credentials, request_id \in RequestIds, status \in RouteStatuses :
          RouteUpdateStatus(credentials, request_id, status)

SpecOwners == Init /\ [][NextOwners]_vars

\* the routes behind require_auth, called with live, expired and logged-out tokens
NextGuard ==
    \/ \E t \in WeekReadings : Tick(t)
    \/ \E login_request \in RouteLogins : Login(login_request)
    \/ \E token \in IssuedTokens : Logout(token)
    \/ \E credentials \in Credentials : RouteCreateProfile(credentials, DataA)
    \/ RouteRequestAppointment(RequestFor("p1"))
    \/ \E credentials \in Credentials, request_id \in RequestIds :
          RouteUpdateStatus(credentials, request_id, "accepted")

SpecGuard == Init /\ [][NextGuard]_vars

\* the store's request methods called directly, next to logins and profiles
NextRequests ==
    \/ \E login_request \in RouteLogins : Login(login_request)
    \/ \E user_id \in UserIds : DbCreateProfile(user_id, DataA)
    \/ \E sender_user_id \in {"None", "u1"} :
          DbCreateAppointmentRequest(RequestFor("p1"), sender_user_id)
    \/ \E request_id \in StoredRequestIds \cup {"r_missing"}, status \in Statuses :
          DbUpdateRequestStatus(request_id, status)

SpecRequests == Init /\ [][NextRequests]_vars

\* create_profile called from two threads
NextThreads ==
    \/ \E t \in WeekReadings : Tick(t)
    \/ \E thread \in Threads, user_id \in UserIds, profile_data \in ProfileCreates :
          CreateProfileScan(thread, user_id, profile_data)
    \/ \E thread \in Threads : CreateProfileStore(thread)

SpecThreads == Init /\ [][NextThreads]_vars

Next == NextAuth \/ NextDb \/ NextRoutes \/ NextOwners \/ NextGuard \/ NextRequests \/ NextThreads

Spec == Init /\ [][Next]_vars

(***************************************************************************)
(* Properties of the data store (checked under SpecDb).                    *)
(***************************************************************************)
Owned(profs, user_id) == {i \in DOMAIN profs : profs[i].user_id = user_id}

DataOf(profile) == [f \in ProfileFields |-> profile[f]]

IsCall(l, op) == l.op = op

Returned(l) == l.ret.k = "record"

\* C1: in every reachable state each user id owns at most one stored profile.
C1_OneProfilePerUser ==
    \A user_id \in UserIds : Cardinality(Owned(profiles, user_id)) <= 1

\* two users own a profile each, and the last call was an upsert of an owned one
C1_Witness ==
    /\ Len(profiles) = 2
    /\ IsCall(last, "create_profile") /\ Returned(last)
    /\ last.ret.v.created_at < last.ret.v.updated_at

\* C2: create_profile(u, d1) followed by create_profile(u, d2) leaves u with
\* exactly one profile, which carries the five fields of d2 and the id the
\* first call returned.
\* (the first conjunct is the second call right after the first; the second is
\* the second call whatever came between, the first one having left a profile)
C2_Step ==
    /\ ( /\ IsCall(last, "create_profile") /\ Returned(last)
         /\ IsCall(last', "create_profile") /\ Returned(last')
         /\ last'.arg.user_id = last.arg.user_id )
       => /\ Cardinality(Owned(profiles', last.arg.user_id)) = 1
          /\ \A i \in Owned(profiles', last.arg.user_id) :
                /\ DataOf(profiles'[i]) = last'.arg.profile_data
                /\ profiles'[i].id = last.ret.v.id
          /\ last'.ret.v.id = last.ret.v.id
    /\ ( /\ IsCall(last', "create_profile") /\ Returned(last')
         /\ Owned(profiles, last'.arg.user_id) # {} )
       => /\ Cardinality(Owned(profiles', last'.arg.user_id)) = 1
          /\ \A i \in Owned(profiles', last'.arg.user_id) :
                /\ DataOf(profiles'[i]) = last'.arg.profile_data
                /\ \A j \in Owned(profiles, last'.arg.user_id) :
                      profiles'[i].id = profiles[j].id
                /\ last'.ret.v = profiles'[i]

C2_UpsertTwice == [][C2_Step]_vars

\* the second of two create_profile calls for one user, with other data
C2_Witness ==
    /\ IsCall(last, "create_profile") /\ Returned(last)
    /\ last.ret.v.created_at < last.ret.v.updated_at
    /\ last.arg.profile_data = DataB
    /\ Len(profiles) = 2

\* the profile a call updates: the one update_profile names, or the one the
\* user of create_profile already owns
UpdatedIndex(l, profs) ==
    IF IsCall(l, "update_profile")
    THEN {i \in DOMAIN profs : profs[i].id = l.arg.profile_id}
    ELSE IF IsCall(l, "create_profile") THEN Owned(profs, l.arg.user_id)
    ELSE {}

\* C3: a call that updates an existing profile leaves its id, user_id and
\* created_at, every other profile, every user and every appointment request
\* as they were.
C3_Step ==
    UpdatedIndex(last', profiles) # {}
    => /\ Len(profiles') = Len(profiles)
       /\ \A i \in DOMAIN profiles :
             IF i \in UpdatedIndex(last', profiles)
             THEN /\ profiles'[i].id = profiles[i].id
                  /\ profiles'[i].user_id = profiles[i].user_id
                  /\ profiles'[i].created_at = profiles[i].created_at
             ELSE profiles'[i] = profiles[i]
       /\ users' = users
       /\ appointment_requests' = appointment_requests

C3_UpdateFrame == [][C3_Step]_vars

\* an update_profile call has rewritten one of two profiles at a later time,
\* with a user and an appointment request in the store
C3_Witness ==
    /\ IsCall(last, "update_profile") /\ Returned(last)
    /\ last.ret.v.created_at < last.ret.v.updated_at
    /\ Len(profiles) = 2 /\ Len(users) > 0 /\ Len(appointment_requests) > 0

(***************************************************************************)
(* Properties of the session store (checked under SpecAuth).               *)
(***************************************************************************)
Absent(l) == l.ret = None

\* the original statement of C4: the token create_session(u) returned, verified
\* less than SessionDays after it was handed out and with no logout of that
\* very token since, yields a session of u
C4_NoLogoutOfThatToken ==
    \A i \in issued :
        ( /\ IsCall(last, "verify_token") /\ last.arg.token = i.token
          /\ now < i.at + SessionDays /\ i.logouts # "same" )
        => /\ last.ret.k = "session"
           /\ last.ret.v.user_id = i.user_id

\* C4 (amended): the token create_session(u) returned, verified less than
\* SessionDays after it was handed out and with no logout of any token naming
\* its session since, yields a session whose user_id is u.
C4_RoundTrip ==
    \A i \in issued :
        ( /\ IsCall(last, "verify_token") /\ last.arg.token = i.token
          /\ now < i.at + SessionDays /\ i.logouts = "none" )
        => /\ last.ret.k = "session"
           /\ last.ret.v.user_id = i.user_id

\* a token verified on a later day than it was handed out, another user's
\* session being stored as well
C4_Witness ==
    /\ IsCall(last, "verify_token") /\ last.ret.k = "session"
    /\ \E i \in issued : last.arg.token = i.token /\ i.at < now /\ i.logouts = "none"
    /\ Cardinality(DOMAIN sessions) = 2

\* C5: verify_token never returns a session SessionDays or more after its
\* creation; verifying a token then (the boundary included) returns None and
\* leaves its session out of the store, at that instant and at every later one.
C5_Expiry ==
    /\ (IsCall(last, "verify_token") /\ last.ret.k = "session")
       => now < last.ret.v.created_at + SessionDays
    /\ \A i \in issued :
          ( /\ IsCall(last, "verify_token") /\ last.arg.token = i.token
            /\ now >= i.at + SessionDays )
          => /\ Absent(last)
             /\ i.session_id \notin DOMAIN sessions

\* a token never logged out, verified exactly SessionDays after it was handed out
C5_Witness ==
    /\ IsCall(last, "verify_token") /\ Absent(last)
    /\ \E i \in issued : /\ last.arg.token = i.token /\ i.logouts = "none"
                         /\ now = i.at + SessionDays

\* C6: right after logout(token) returned True for a token create_session
\* handed out, verify_token(token) returns None, and logout(token) returns
\* False and leaves the session store as it was.
C6_Step ==
    ( /\ IsCall(last, "logout") /\ last.ret = Some("bool", TRUE)
      /\ last.arg.token \in IssuedTokens )
    => /\ (IsCall(last', "verify_token") /\ last'.arg.token = last.arg.token)
          => Absent(last')
       /\ (IsCall(last', "logout") /\ last'.arg.token = last.arg.token)
          => (last'.ret = Some("bool", FALSE) /\ sessions' = sessions)

C6_LogoutThenAbsent == [][C6_Step]_vars

\* logout of a handed-out token returns False before the session would have
\* expired, after a logout of that very token
C6_Witness ==
    /\ IsCall(last, "logout") /\ last.ret = Some("bool", FALSE)
    /\ \E i \in issued : /\ last.arg.token = i.token /\ i.logouts = "same"
                         /\ now < i.at + SessionDays

\* a token that names the session of a handed-out token that is not stored
NamesUnstored(token, sess) ==
    \E i \in issued : NamesSession(token, i.session_id) /\ i.session_id \notin DOMAIN sess

\* C8: verify_token returns None and logout returns False, without raising and
\* without changing the session store, for every token that is malformed or
\* names a session that is not stored.
C8_Step ==
    /\ ( /\ IsCall(last', "verify_token")
         /\ (last'.arg.token \in MalformedTokens \/ NamesUnstored(last'.arg.token, sessions)) )
       => (Absent(last') /\ sessions' = sessions)
    /\ ( /\ IsCall(last', "logout")
         /\ (last'.arg.token \in MalformedTokens \/ NamesUnstored(last'.arg.token, sessions)) )
       => (last'.ret = Some("bool", FALSE) /\ sessions' = sessions)

C8_FailClosed == [][C8_Step]_vars

\* logout was called with a token whose session_id is a JSON array (TypeError
\* inside the try block) while a session is stored
C8_Witness ==
    /\ IsCall(last, "logout")
    /\ last.arg.token = Text(<< P("{"), S("session_id"), P(":"), P("["), P("]"), P("}") >>)
    /\ DOMAIN sessions # {}

\* the user_id a well-formed token encodes
EncodedUserId(token) == JsonLoads(token.text).fields["user_id"].v

\* the original statement of C9: whenever verify_token returns a session, the
\* session's user_id is the user_id encoded in the presented token
C9_TamperedRejected ==
    (IsCall(last, "verify_token") /\ last.ret.k = "session")
    => last.ret.v.user_id = EncodedUserId(last.arg.token)

\* C9 (amended): whenever verify_token returns a session, it is the stored
\* session the token's session_id names, and its user_id is the user that
\* session was created for, whatever user_id the token encodes.
C9_SessionOfNamedId ==
    (IsCall(last, "verify_token") /\ last.ret.k = "session")
    => \E i \in issued :
          /\ NamesSession(last.arg.token, i.session_id)
          /\ i.session_id \in DOMAIN sessions
          /\ last.ret.v = sessions[i.session_id]
          /\ last.ret.v.user_id = i.user_id

\* verify_token returned a session for a token whose user_id was rewritten
C9_Witness ==
    /\ IsCall(last, "verify_token") /\ last.ret.k = "session"
    /\ last.arg.token \in TamperedTokens
    /\ EncodedUserId(last.arg.token) # last.ret.v.user_id

(***************************************************************************)
(* Properties of login and logout (checked under SpecLogin).               *)
(***************************************************************************)
\* the session the credentials of a call name, when create_session made them
SessionOf(credentials) == {i.session_id : i \in {j \in issued : j.token = credentials}}

\* C7: after POST /auth/logout succeeded for a token, the token's session is no
\* longer in the session store.
C7_RouteLogoutDestroys ==
    (IsCall(last, "POST /auth/logout") /\ last.ret.status = 200)
    => SessionOf(last.arg.credentials) \cap DOMAIN sessions = {}

UniqueWorkosIds(us) ==
    \A i, j \in DOMAIN us : us[i].workos_user_id = us[j].workos_user_id => i = j

\* C10: no two users share a WorkOS id; a login right after a login with the
\* same email returns the same user; a login whose WorkOS id has a user returns
\* that user; and a login changes nothing but the session store (and the user
\* table, when it adds the first user of a WorkOS id).
C10_Step ==
    /\ UniqueWorkosIds(users')
    /\ ( /\ IsCall(last, "POST /auth/login") /\ IsCall(last', "POST /auth/login")
         /\ last'.arg.email = last.arg.email )
       => /\ last'.ret.v.user = last.ret.v.user
          /\ users' = users
    /\ IsCall(last', "POST /auth/login")
       => /\ (\E k \in DOMAIN users :
                 users[k].workos_user_id = last'.ret.v.user.workos_user_id)
             => /\ users' = users
                /\ \E k \in DOMAIN users : users[k] = last'.ret.v.user
          /\ \/ users' = users
             \/ users' = Append(users, last'.ret.v.user)
          /\ profiles' = profiles /\ appointment_requests' = appointment_requests
          /\ DOMAIN sessions \subseteq DOMAIN sessions'

C10_OneUserPerWorkosId == [][C10_Step]_vars

\* a login under another display name returned the user the first login with
\* that email created, a second user being stored as well
C10_Witness ==
    /\ IsCall(last, "POST /auth/login")
    /\ last.ret.v.user.email = last.arg.email
    /\ last.ret.v.user.name # last.arg.name
    /\ Len(users) = 2

(***************************************************************************)
(* Properties of the routes (checked under SpecOwners and SpecGuard).      *)
(***************************************************************************)
\* C11: POST /appointments for a profile id that is not stored answers 404 and
\* leaves the stored requests as they were; and every stored request names a
\* stored profile.
C11_Step ==
    /\ ( /\ IsCall(last', "POST /appointments")
         /\ last'.arg.request.profile_id \notin Ids(profiles) )
       => /\ last'.ret.status = 404
          /\ appointment_requests' = appointment_requests
    /\ \A i \in DOMAIN appointment_requests' :
          appointment_requests'[i].profile_id \in Ids(profiles')

C11_NoRequestWithoutProfile == [][C11_Step]_vars

\* a request for an unknown profile id was just refused, with a profile and a
\* request for it in the store
C11_Witness ==
    /\ IsCall(last, "POST /appointments") /\ last.ret.status = 404
    /\ last.arg.request.profile_id \notin Ids(profiles)
    /\ Len(profiles) > 0 /\ Len(appointment_requests) > 0

\* the user create_session made the credentials of a call for
Caller(credentials) == {i.user_id : i \in {j \in issued : j.token = credentials}}

\* the users owning the profile a stored request is addressed to
OwnerOf(request, profs) ==
    {profs[k].user_id : k \in {j \in DOMAIN profs : profs[j].id = request.profile_id}}

Authenticated(l) == l.ret.status # 401

\* C12: PUT /appointments/{request_id}/status by an authenticated user who does
\* not own the request's target profile answers 404 and leaves users, profiles
\* and requests as they were; and a step that changes the status of a request
\* is such a call for that request by the owner of its target profile.
C12_Step ==
    /\ \A i \in DOMAIN appointment_requests :
          ( /\ IsCall(last', "PUT /appointments/status") /\ Authenticated(last')
            /\ last'.arg.request_id = appointment_requests[i].id
            /\ OwnerOf(appointment_requests[i], profiles)
                   \cap Caller(last'.arg.credentials) = {} )
          => /\ last'.ret.status = 404
             /\ dbvars' = dbvars
    /\ \A i \in DOMAIN appointment_requests :
          ( /\ i \in DOMAIN appointment_requests'
            /\ appointment_requests'[i].status # appointment_requests[i].status )
          => /\ IsCall(last', "PUT /appointments/status")
             /\ last'.arg.request_id = appointment_requests[i].id
             /\ OwnerOf(appointment_requests[i], profiles)
                    \cap Caller(last'.arg.credentials) # {}

C12_OnlyOwnerUpdates == [][C12_Step]_vars

\* a logged-in user who owns a profile was just refused the update of a stored
\* request addressed to the other user's profile
C12_Witness ==
    /\ IsCall(last, "PUT /appointments/status") /\ last.ret.status = 404
    /\ Caller(last.arg.credentials) # {}
    /\ Len(profiles) = 2
    /\ \E i \in DOMAIN appointment_requests :
          /\ appointment_requests[i].id = last.arg.request_id
          /\ OwnerOf(appointment_requests[i], profiles) \cap Caller(last.arg.credentials) = {}
    /\ \E k \in DOMAIN profiles : profiles[k].user_id \in Caller(last.arg.credentials)

\* C13: the status of a request is pending, accepted or rejected, and once it
\* is accepted or rejected no later step changes it.
C13_Step ==
    \A i \in DOMAIN appointment_requests :
        i \in DOMAIN appointment_requests'
        => /\ appointment_requests'[i].status \in {"pending", "accepted", "rejected"}
           /\ appointment_requests[i].status \in {"accepted", "rejected"}
              => appointment_requests'[i].status = appointment_requests[i].status

C13_OneWayStatus == [][C13_Step]_vars

\* credentials that authenticate nobody: no Authorization header, a malformed
\* token, or a token of create_session that has expired or has since been
\* passed to AuthManager.logout
Invalid(credentials) ==
    \/ credentials = NoCredentials
    \/ credentials \in MalformedTokens
    \/ \E i \in issued : /\ i.token = credentials
                          /\ (now >= i.at + SessionDays \/ i.logouts # "none")

MutatingRoutes == {"POST /profiles", "PUT /appointments/status"}

\* C14: POST /profiles and PUT /appointments/{request_id}/status called with no
\* token, a malformed token, an expired token or a logged-out token answer 401
\* and leave users, profiles and requests as they were.
C14_Step ==
    (last'.op \in MutatingRoutes /\ Invalid(last'.arg.credentials))
    => /\ last'.ret.status = 401
       /\ dbvars' = dbvars

C14_NoMutationUnauthenticated == [][C14_Step]_vars

\* the owner of a profile with a stored request was just refused the status
\* update because the token had expired, never having been logged out
C14_Witness ==
    /\ IsCall(last, "PUT /appointments/status") /\ last.ret.status = 401
    /\ \E i \in issued :
          /\ i.token = last.arg.credentials
          /\ i.logouts = "none" /\ now >= i.at + SessionDays
          /\ \E r \in DOMAIN appointment_requests :
                /\ appointment_requests[r].id = last.arg.request_id
                /\ i.user_id \in OwnerOf(appointment_requests[r], profiles)

(***************************************************************************)
(* Further properties of the session store (checked under SpecAuth).       *)
(***************************************************************************)
\* C15: every create_session call stores one more session: its session id is
\* none of the ids stored before and no stored record is overwritten.
C15_Step ==
    IsCall(last', "create_session")
    => /\ Cardinality(DOMAIN sessions') = Cardinality(DOMAIN sessions) + 1
       /\ \A session_id \in DOMAIN sessions : sessions'[session_id] = sessions[session_id]
       /\ \A i \in issued : i.session_id \notin DOMAIN sessions' \ DOMAIN sessions

C15_FreshSessionId == [][C15_Step]_vars

(***************************************************************************)
(* Ownership of profiles through the routes (checked under SpecOwners).    *)
(***************************************************************************)
\* C16: POST /profiles by an authenticated caller creates or modifies only a
\* profile whose user_id is the caller's id, whatever the body says; it leaves
\* every profile of another user, the users and the requests as they were; and
\* no step changes the user_id of a stored profile.
C16_Step ==
    /\ (IsCall(last', "POST /profiles") /\ Authenticated(last'))
       => /\ last'.ret.v.user_id \in Caller(last'.arg.credentials)
          /\ \A k \in DOMAIN profiles' :
                IF k \in DOMAIN profiles
                THEN profiles[k].user_id \notin Caller(last'.arg.credentials)
                        => profiles'[k] = profiles[k]
                ELSE profiles'[k].user_id \in Caller(last'.arg.credentials)
          /\ users' = users /\ appointment_requests' = appointment_requests
    /\ \A k \in DOMAIN profiles :
          k \in DOMAIN profiles' /\ profiles'[k].user_id = profiles[k].user_id

C16_CallerOwnsProfile == [][C16_Step]_vars

\* the second user posted a body naming the first user as user_id, while the
\* first user owns a profile: the caller's own profile holds the body's data
C16_Witness ==
    /\ IsCall(last, "POST /profiles") /\ last.ret.status = 200
    /\ last.arg.profile = BodyB
    /\ Caller(last.arg.credentials) = {"u2"}
    /\ last.ret.v.user_id = "u2"
    /\ \E k \in DOMAIN profiles : profiles[k].user_id = "u1" /\ profiles[k].name = "Alice"

(***************************************************************************)
(* Properties of the store's request methods (checked under SpecRequests). *)
(***************************************************************************)
\* C17: update_request_status returns False and changes nothing when the
\* request id is not stored; otherwise it returns True and gives that one
\* request the status passed, whatever its status was, leaving its other
\* fields, the other requests, the profiles and the users as they were.
C17_Step ==
    IsCall(last', "update_request_status")
    => IF last'.arg.request_id \notin Ids(appointment_requests)
       THEN /\ last'.ret = Some("bool", FALSE)
            /\ dbvars' = dbvars /\ sessions' = sessions
       ELSE /\ last'.ret = Some("bool", TRUE)
            /\ DOMAIN appointment_requests' = DOMAIN appointment_requests
            /\ \A i \in DOMAIN appointment_requests :
                  IF appointment_requests[i].id = last'.arg.request_id
                  THEN /\ appointment_requests'[i].status = last'.arg.status
                       /\ DOMAIN appointment_requests'[i] = DOMAIN appointment_requests[i]
                       /\ \A f \in DOMAIN appointment_requests[i] \ {"status"} :
                             appointment_requests'[i][f] = appointment_requests[i][f]
                  ELSE appointment_requests'[i] = appointment_requests[i]
            /\ users' = users /\ profiles' = profiles /\ sessions' = sessions

C17_StatusFrame == [][C17_Step]_vars

\* the second of two stored requests was just set back to pending while the
\* first one stays rejected, with a user and a profile in the store
C17_Witness ==
    /\ IsCall(last, "update_request_status") /\ last.ret = Some("bool", TRUE)
    /\ last.arg = [request_id |-> "r2", status |-> "pending"]
    /\ Len(appointment_requests) = 2
    /\ appointment_requests[1].status = "rejected"
    /\ appointment_requests[2].status = "pending"
    /\ Len(users) > 0 /\ Len(profiles) > 0

(***************************************************************************)
(* Eviction of sessions (checked under SpecAuth).                          *)
(***************************************************************************)
SessionCalls == {"verify_token", "logout"}

\* C18: a session leaves the store only in a verify_token or logout call whose
\* token names it (its own token, as far as the store can tell), in
\* verify_token only when it has expired; so it stays stored after its expiry
\* until such a call.  verify_token that returns a session leaves the store as
\* it was, and neither call changes or removes any other session.
C18_Step ==
    /\ \A session_id \in DOMAIN sessions \ DOMAIN sessions' :
          /\ last'.op \in SessionCalls
          /\ NamesSession(last'.arg.token, session_id)
          /\ IsCall(last', "verify_token") => sessions[session_id].expires_at <= now
    /\ (IsCall(last', "verify_token") /\ last'.ret.k = "session")
       => sessions' = sessions
    /\ last'.op \in SessionCalls
       => /\ DOMAIN sessions' \subseteq DOMAIN sessions
          /\ \A session_id \in DOMAIN sessions' : sessions'[session_id] = sessions[session_id]

C18_LazyLocalEviction == [][C18_Step]_vars

\* verify_token just returned a live session while an expired session of the
\* other user is still stored
C18_Witness ==
    /\ IsCall(last, "verify_token") /\ last.ret.k = "session"
    /\ \E session_id \in DOMAIN sessions :
          /\ sessions[session_id].expires_at <= now
          /\ ~NamesSession(last.arg.token, session_id)

(***************************************************************************)
(* create_profile under concurrent callers (checked under SpecThreads).    *)
(***************************************************************************)
\* C19: when create_profile calls of several threads interleave between the
\* scan for an existing profile and the insertion, each user still owns at
\* most one profile once the calls have returned.
C19_OneProfileAfterInterleaving ==
    (\A thread \in Threads : calls[thread] = Idle)
    => \A user_id \in UserIds : Cardinality(Owned(profiles, user_id)) <= 1

====
